---- MODULE Spec2Model ----
(***************************************************************************)
(* Request pipeline of the gRPC server: the tower layers registered in     *)
(* main.rs (tracing, sentry, config, cookie) around the RPC handler, the   *)
(* session lookup of the cookie middleware against the redis store, and    *)
(* the classification of ServiceError values.                              *)
(*                                                                         *)
(* One request is in flight at a time; requests follow each other, and the *)
(* store keeps its state between them.  The only state requests share is   *)
(* the store, and each request touches it in one GETEX command, so a       *)
(* sequence of requests reaches every store state an interleaving would.   *)
(***************************************************************************)
EXTENDS Integers, Sequences, FiniteSets, TLC

\* ------------------------------------------------------------------ bounds
\* Most "; "-separated pieces in one cookie header.
MaxCookies == 2
\* Seconds that pass in one step of the clock.
TickSeconds == 43200

\* The largest count an EventConfigRequest asks for.
MaxCount == 6
\* The most items a client sends on one inbound stream.
MaxInbound == 3
\* The most OS interrupts the process is sent.
MaxInterrupts == 2
\* The most calls one connection makes.
MaxCalls == 2
\* The texts a client sends.
Contents == {"x", "y", "z"}

\* --------------------------------------------------------------- constants
\* mpsc::channel::<T>(4)
ChannelCapacity == 4
\* Duration::hours(24)
SessionHours == 24
\* Duration::whole_seconds
WholeSeconds(hours) == hours * 3600

\* Session ids a client may present, and the keys of the store.
Creds == {"c1", "c2"}

\* Values found under a session key: two spellings of one UUID and a string
\* that is no UUID.
ValidLower == "67e55044-10b1-426f-9247-bb680e5fe0c8"
ValidUpper == "67E55044-10B1-426F-9247-BB680E5FE0C8"
Malformed == "not-a-uuid"
StoredValues == {ValidLower, ValidUpper, Malformed}

\* ------------------------------------------------------------ error values
\* A ServiceError: its variant, and for the variants that wrap a library
\* error the predicates (is_timeout, is_io_error, ...) that error satisfies.
ServiceError(kind, is) == [kind |-> kind, is |-> is]
NoError == ServiceError("none", {})
BadCredential == ServiceError("BadCredential", {})
MiddlewareNotSet == ServiceError("MiddlewareNotSet", {})
UuidError == ServiceError("Uuid", {})
CookieParseError == ServiceError("CookieParse", {})
HttpHeaderError == ServiceError("HttpHeader", {})
\* tonic::transport::Error, the one boxed error that is no ServiceError.
TransportError == ServiceError("Transport", {})

\* The redis errors the store round trip is let fail with.
RedisFailures == {{"timeout", "io"}, {}}

OkResult == [ok |-> TRUE, err |-> NoError]
ErrResult(e) == [ok |-> FALSE, err |-> e]

\* ServiceError::get_code: the status code, the log macro and the report to
\* the sentry sink of each variant.  The arms are tried in the order written,
\* as the match does.
Classified(code, log, report) == [code |-> code, log |-> log, report |-> report]

\* The Redis arms with is_io_error tried first.
redis_code_io_first(is) ==
    IF "io" \in is THEN Classified("Internal", "error", "fatal")
    ELSE IF "timeout" \in is THEN Classified("FailedPrecondition", "warn", "warning")
    ELSE IF "cluster" \in is THEN Classified("Unavailable", "error", "error")
    ELSE IF "dropped" \in is THEN Classified("Unavailable", "warn", "warning")
    ELSE IF "refused" \in is THEN Classified("Unavailable", "error", "error")
    ELSE Classified("Unavailable", "error", "warning")

\* The Redis arms: is_timeout, is_cluster_error, is_connection_dropped,
\* is_connection_refusal, is_io_error, then the arm without a guard.
redis_code(is) ==
    IF "timeout" \in is THEN Classified("FailedPrecondition", "warn", "warning")
    ELSE IF "cluster" \in is THEN Classified("Unavailable", "error", "error")
    ELSE IF "dropped" \in is THEN Classified("Unavailable", "warn", "warning")
    ELSE IF "refused" \in is THEN Classified("Unavailable", "error", "error")
    ELSE IF "io" \in is THEN Classified("Internal", "error", "fatal")
    ELSE Classified("Unavailable", "error", "warning")

\* The Reqwest arms.
reqwest_code(is) ==
    IF "body" \in is THEN Classified("InvalidArgument", "warn", "warning")
    ELSE IF "builder" \in is THEN Classified("Internal", "error", "fatal")
    ELSE IF "connect" \in is THEN Classified("Unavailable", "error", "error")
    ELSE IF "decode" \in is THEN Classified("FailedPrecondition", "warn", "warning")
    ELSE IF "redirect" \in is THEN Classified("Internal", "warn", "warning")
    ELSE IF "timeout" \in is THEN Classified("DeadlineExceeded", "warn", "warning")
    ELSE IF "request" \in is THEN Classified("FailedPrecondition", "error", "error")
    ELSE IF "status" \in is THEN Classified("FailedPrecondition", "warn", "warning")
    ELSE Classified("Internal", "error", "error")

\* The LapinAMQP arms with the wildcard ending in Code::Unknown.
lapin_code_wildcard_unknown(is) ==
    IF "ChannelsLimitReached" \in is THEN Classified("ResourceExhausted", "warn", "warning")
    ELSE IF "InvalidProtocolVersion" \in is THEN Classified("Internal", "error", "fatal")
    ELSE IF "InvalidChannel" \in is THEN Classified("FailedPrecondition", "error", "error")
    ELSE IF "InvalidChannelState" \in is THEN Classified("Unavailable", "error", "error")
    ELSE IF "InvalidConnectionState" \in is THEN Classified("Unavailable", "error", "error")
    ELSE IF "IOError" \in is THEN Classified("Internal", "error", "fatal")
    ELSE IF "ParsingError" \in is THEN Classified("FailedPrecondition", "error", "error")
    ELSE IF "ProtocolError" \in is THEN Classified("Internal", "error", "fatal")
    ELSE IF "SerialisationError" \in is THEN Classified("FailedPrecondition", "error", "error")
    ELSE Classified("Unknown", "error", "fatal")

\* The LapinAMQP arms with InvalidChannel next to the two invalid states.
lapin_code_invalid_channel_unavailable(is) ==
    IF "ChannelsLimitReached" \in is THEN Classified("ResourceExhausted", "warn", "warning")
    ELSE IF "InvalidProtocolVersion" \in is THEN Classified("Internal", "error", "fatal")
    ELSE IF "InvalidChannel" \in is THEN Classified("Unavailable", "error", "error")
    ELSE IF "InvalidChannelState" \in is THEN Classified("Unavailable", "error", "error")
    ELSE IF "InvalidConnectionState" \in is THEN Classified("Unavailable", "error", "error")
    ELSE IF "IOError" \in is THEN Classified("Internal", "error", "fatal")
    ELSE IF "ParsingError" \in is THEN Classified("FailedPrecondition", "error", "error")
    ELSE IF "ProtocolError" \in is THEN Classified("Internal", "error", "fatal")
    ELSE IF "SerialisationError" \in is THEN Classified("FailedPrecondition", "error", "error")
    ELSE Classified("Internal", "error", "fatal")

\* The LapinAMQP arms, one per variant of lapin::Error that is named, then
\* the wildcard.
lapin_code(is) ==
    IF "ChannelsLimitReached" \in is THEN Classified("ResourceExhausted", "warn", "warning")
    ELSE IF "InvalidProtocolVersion" \in is THEN Classified("Internal", "error", "fatal")
    ELSE IF "InvalidChannel" \in is THEN Classified("FailedPrecondition", "error", "error")
    ELSE IF "InvalidChannelState" \in is THEN Classified("Unavailable", "error", "error")
    ELSE IF "InvalidConnectionState" \in is THEN Classified("Unavailable", "error", "error")
    ELSE IF "IOError" \in is THEN Classified("Internal", "error", "fatal")
    ELSE IF "ParsingError" \in is THEN Classified("FailedPrecondition", "error", "error")
    ELSE IF "ProtocolError" \in is THEN Classified("Internal", "error", "fatal")
    ELSE IF "SerialisationError" \in is THEN Classified("FailedPrecondition", "error", "error")
    ELSE Classified("Internal", "error", "fatal")

\* The TaskJoinError arms without the one that ends in Code::Cancelled.
task_join_code_no_cancelled(is) ==
    IF "panic" \in is THEN Classified("Internal", "error", "exception+fatal")
    ELSE Classified("Internal", "warn", "warning")

\* The TaskJoinError arms: is_panic, then !is_cancelled, then the rest.
task_join_code(is) ==
    IF "panic" \in is THEN Classified("Internal", "error", "exception+fatal")
    ELSE IF "cancelled" \notin is THEN Classified("Internal", "warn", "warning")
    ELSE Classified("Cancelled", "none", "none")

get_code(e) ==
    IF e.kind = "Reqwest" THEN reqwest_code(e.is)
    ELSE IF e.kind = "Redis" THEN redis_code(e.is)
    ELSE IF e.kind = "MiddlewareNotSet" THEN Classified("Internal", "error", "fatal")
    ELSE IF e.kind = "ConfigNotSet" THEN Classified("Internal", "error", "fatal")
    ELSE IF e.kind = "ParseMessage" THEN Classified("Internal", "error", "error")
    ELSE IF e.kind = "RcHasReference" THEN Classified("Internal", "error", "fatal")
    ELSE IF e.kind = "ValidateFailure" THEN Classified("InvalidArgument", "none", "none")
    ELSE IF e.kind = "ParseInt" THEN Classified("InvalidArgument", "warn", "warning")
    ELSE IF e.kind = "ParseUtf8" THEN Classified("InvalidArgument", "warn", "warning")
    ELSE IF e.kind = "BadCredential" THEN Classified("Unauthenticated", "none", "none")
    ELSE IF e.kind = "Rejected" THEN Classified("PermissionDenied", "warn", "warning")
    ELSE IF e.kind = "Uuid" THEN Classified("InvalidArgument", "warn", "warning")
    ELSE IF e.kind = "TryFrom" THEN Classified("DataLoss", "none", "none")
    ELSE IF e.kind = "EmptySliceIndex" THEN Classified("FailedPrecondition", "warn", "warning")
    ELSE IF e.kind = "LapinAMQP" THEN lapin_code(e.is)
    ELSE IF e.kind = "SendError" THEN Classified("FailedPrecondition", "warn", "warning")
    ELSE IF e.kind = "OneshotRecvError" THEN Classified("FailedPrecondition", "warn", "warning")
    ELSE IF e.kind = "TaskJoinError" THEN task_join_code(e.is)
    ELSE IF e.kind = "SemaphoreAquire" THEN Classified("FailedPrecondition", "warn", "warning")
    ELSE IF e.kind \in {"QueueDeclareTimeout", "QueueBindTimeout",
                        "QueueBasicConsumeTimeout", "QueueBasicAckTimeout",
                        "ClientTimeout"}
         THEN Classified("DeadlineExceeded", "none", "none")
    ELSE IF e.kind = "CookieParse" THEN Classified("FailedPrecondition", "warn", "warning")
    ELSE IF e.kind = "HttpHeader" THEN Classified("FailedPrecondition", "warn", "warning")
    ELSE IF e.kind = "HttpHeaderNotFound" THEN Classified("Internal", "warn", "warning")
    ELSE IF e.kind = "MsgPackDecodeError" THEN Classified("FailedPrecondition", "warn", "warning")
    ELSE IF e.kind = "MsgPackEncodeError" THEN Classified("FailedPrecondition", "warn", "warning")
    ELSE Classified("Unknown", "error", "fatal")


\* ---------------------------------------------------------- request headers
\* One "; "-separated piece of a cookie header: the text before the first
\* '=' (name), the text after it (value), and whether there is an '=' at all.
RawCookie(eq, name, value) == [eq |-> eq, name |-> name, value |-> value]
RawCookies ==
    { RawCookie(TRUE, "session", "c1"),
      RawCookie(TRUE, " session", "c2 "),
      RawCookie(TRUE, "other", "c1"),
      RawCookie(FALSE, "garbage", "") }

\* str::trim on the names and values that occur.
Trim(s) ==
    CASE s = " session" -> "session"
      [] s = "c2 " -> "c2"
      [] OTHER -> s

\* Cookie::parse: a piece without '=' or with an empty name is refused, the
\* name and the value are trimmed.
CookieParse(raw) ==
    IF ~raw.eq THEN [ok |-> FALSE, name |-> "", value |-> ""]
    ELSE IF Trim(raw.name) = "" THEN [ok |-> FALSE, name |-> "", value |-> ""]
    ELSE [ok |-> TRUE, name |-> Trim(raw.name), value |-> Trim(raw.value)]

\* A header of the request: absent, present with bytes to_str refuses, or
\* present as text.  The cookie header's text is the sequence of its pieces,
\* the Session header's text is one value.
AbsentHeader == [tag |-> "absent", pieces |-> <<>>, text |-> ""]
OpaqueHeader == [tag |-> "opaque", pieces |-> <<>>, text |-> ""]
CookieText(pieces) == [tag |-> "text", pieces |-> pieces, text |-> ""]
SessionText(text) == [tag |-> "text", pieces |-> <<>>, text |-> text]

SeqsUpTo(S, n) == UNION { [1..k -> S] : k \in 1..n }

CookieHeaders ==
    {AbsentHeader, OpaqueHeader} \cup { CookieText(p) : p \in SeqsUpTo(RawCookies, MaxCookies) }
SessionHeaders ==
    {AbsentHeader, OpaqueHeader} \cup { SessionText(c) : c \in Creds }
\* The X-Forwarded-For header: absent, or the address of the client.
ClientAddress == "10.0.0.1"
ForwardedHeaders == {AbsentHeader, SessionText(ClientAddress)}

\* CookieJar::add over the parsed pieces, in order: a later cookie replaces
\* an earlier one of the same name.  The jar maps the names it holds to values.
RECURSIVE JarOf(_)
JarOf(pieces) ==
    IF pieces = <<>> THEN [n \in {} |-> ""]
    ELSE LET front == JarOf(SubSeq(pieces, 1, Len(pieces) - 1))
             last == CookieParse(pieces[Len(pieces)])
         IN  [n \in DOMAIN front \cup {last.name} |->
                 IF n = last.name THEN last.value ELSE front[n]]

\* The `header` value of inspect_request_metadata: None, Some(Err(_)) when
\* to_str fails, Some(Ok(Err(_))) when a piece fails to parse, and
\* Some(Ok(Ok(jar))) otherwise.
ParsedCookieHeader(h) ==
    IF h.tag = "absent" THEN [tag |-> "None", jar |-> JarOf(<<>>)]
    ELSE IF h.tag = "opaque" THEN [tag |-> "ToStrErr", jar |-> JarOf(<<>>)]
    ELSE IF \E i \in 1..Len(h.pieces) : ~CookieParse(h.pieces[i]).ok
         THEN [tag |-> "ParseErr", jar |-> JarOf(<<>>)]
    ELSE [tag |-> "Jar", jar |-> JarOf(h.pieces)]

\* The `session` value of inspect_request_metadata.
ParsedSessionHeader(h) ==
    IF h.tag = "absent" THEN [tag |-> "None", sid |-> ""]
    ELSE IF h.tag = "opaque" THEN [tag |-> "ToStrErr", sid |-> ""]
    ELSE [tag |-> "Sid", sid |-> h.text]

\* ------------------------------------------------------------------- store
\* A key of the store holds no record, or a value and the seconds it has
\* left to live.
NoRecord == [live |-> FALSE, val |-> "", ttl |-> 0]
Record(val, ttl) == [live |-> TRUE, val |-> val, ttl |-> ttl]

\* GETEX key EX seconds: the value under the key, or nil; a key that holds a
\* value has its time to live set to `seconds`, a key that holds none is
\* left as it is.
Nil == "(nil)"
GetexReply(st, key) == IF st[key].live THEN st[key].val ELSE Nil
\* GetexStore that sets the time to live only of a value that is a UUID.
GetexStoreValidOnly(st, key, seconds) ==
    IF st[key].live /\ st[key].val \in {ValidLower, ValidUpper}
    THEN [st EXCEPT ![key] = Record(st[key].val, seconds)] ELSE st
\* GetexStore as a command that writes the key whether or not it holds a value.
GetexStoreUpsert(st, key, seconds) ==
    [st EXCEPT ![key] = [live |-> TRUE, val |-> st[key].val, ttl |-> seconds]]

GetexStore(st, key, seconds) ==
    IF st[key].live THEN [st EXCEPT ![key] = Record(st[key].val, seconds)] ELSE st

\* Uuid::parse_str: both spellings of the UUID give the same Uuid.
UuidOf == "uuid(67e5504410b1426f9247bb680e5fe0c8)"
ParseUuid(s) ==
    IF s \in {ValidLower, ValidUpper} THEN [ok |-> TRUE, uid |-> UuidOf]
    ELSE [ok |-> FALSE, uid |-> ""]

\* ------------------------------------------------------ request extensions
\* CookieSessionContainer in the extensions: not inserted, inserted with
\* None, or inserted with a CookieSession.
AbsentContainer == [present |-> FALSE, some |-> FALSE, sid |-> "", uid |-> ""]
EmptyContainer == [present |-> TRUE, some |-> FALSE, sid |-> "", uid |-> ""]
PopulatedContainer(sid, uid) == [present |-> TRUE, some |-> TRUE, sid |-> sid, uid |-> uid]


\* ---------------------------------------------------- session resolution
\* The seconds given to GETEX on the cookie path and on the header path.
CookieGetexSeconds == WholeSeconds(SessionHours)
\* HeaderGetexSeconds with whole_minutes in place of whole_seconds.
HeaderGetexMinutes == SessionHours * 60

HeaderGetexSeconds == WholeSeconds(SessionHours)

\* MatchArm with the arms of the parse errors written before the arm of the
\* Session header.
MatchArmErrorsFirst(header, session, pool) ==
    IF header.tag = "Jar" /\ pool THEN "cookie"
    ELSE IF header.tag = "ParseErr" THEN "cookie_parse_error"
    ELSE IF header.tag = "ToStrErr" THEN "cookie_to_str_error"
    ELSE IF session.tag = "Sid" /\ pool THEN "header"
    ELSE IF session.tag = "ToStrErr" THEN "session_to_str_error"
    ELSE IF ~pool THEN "no_pool"
    ELSE "no_session"

\* MatchArm with the arm of the Session header written before the arm of
\* the cookie jar.
MatchArmHeaderFirst(header, session, pool) ==
    IF session.tag = "Sid" /\ pool THEN "header"
    ELSE IF header.tag = "Jar" /\ pool THEN "cookie"
    ELSE IF header.tag = "ParseErr" THEN "cookie_parse_error"
    ELSE IF header.tag = "ToStrErr" THEN "cookie_to_str_error"
    ELSE IF session.tag = "ToStrErr" THEN "session_to_str_error"
    ELSE IF ~pool THEN "no_pool"
    ELSE "no_session"

\* The arm of `match (header, session, redis_pool)` that is taken: the first
\* whose pattern fits.
MatchArm(header, session, pool) ==
    IF header.tag = "Jar" /\ pool THEN "cookie"
    ELSE IF session.tag = "Sid" /\ pool THEN "header"
    ELSE IF header.tag = "ParseErr" THEN "cookie_parse_error"
    ELSE IF header.tag = "ToStrErr" THEN "cookie_to_str_error"
    ELSE IF session.tag = "ToStrErr" THEN "session_to_str_error"
    ELSE IF ~pool THEN "no_pool"
    ELSE "no_session"

\* What an arm does before any answer of the store: ask the store for a key,
\* return Ok(()) or return an error.
Lookup(path, key) == [do |-> "lookup", path |-> path, key |-> key, err |-> NoError]
Proceed == [do |-> "ok", path |-> "", key |-> "", err |-> NoError]
Fail(e) == [do |-> "fail", path |-> "", key |-> "", err |-> e]

\* ArmPlan with the arm for a request without Session header returning
\* HttpHeaderNotFound in place of Ok(()).
ArmPlanHeaderRequired(arm, header, session) ==
    CASE arm = "cookie" ->
            IF "session" \in DOMAIN header.jar
            THEN Lookup("cookie", header.jar["session"])
            ELSE Proceed
      [] arm = "header" -> Lookup("header", session.sid)
      [] arm = "cookie_parse_error" -> Fail(CookieParseError)
      [] arm = "cookie_to_str_error" -> Fail(HttpHeaderError)
      [] arm = "session_to_str_error" -> Fail(HttpHeaderError)
      [] arm = "no_pool" -> Fail(MiddlewareNotSet)
      [] arm = "no_session" -> Fail(ServiceError("HttpHeaderNotFound", {}))

ArmPlan(arm, header, session) ==
    CASE arm = "cookie" ->
            IF "session" \in DOMAIN header.jar
            THEN Lookup("cookie", header.jar["session"])
            ELSE Proceed
      [] arm = "header" -> Lookup("header", session.sid)
      [] arm = "cookie_parse_error" -> Fail(CookieParseError)
      [] arm = "cookie_to_str_error" -> Fail(HttpHeaderError)
      [] arm = "session_to_str_error" -> Fail(HttpHeaderError)
      [] arm = "no_pool" -> Fail(MiddlewareNotSet)
      [] arm = "no_session" -> Proceed

\* The outcome of inspect_request_metadata: Ok(()) with the container it
\* left in the extensions, or the error it returned.
Resolved(container) == [ok |-> TRUE, err |-> NoError, container |-> container]
Refused(e) == [ok |-> FALSE, err |-> e, container |-> AbsentContainer]

\* CookieResolve with `Ok(Some(Err(e)))` taken for an unknown credential.
CookieResolveMalformedUnknown(reply, sid) ==
    IF reply = Nil THEN Refused(BadCredential)
    ELSE IF ParseUuid(reply).ok THEN Resolved(PopulatedContainer(sid, ParseUuid(reply).uid))
    ELSE Refused(BadCredential)

\* `match record.map(|uid| uid.map(|uid| Uuid::parse_str(&uid)))` for an
\* answer of the store, on the cookie path and on the header path.
CookieResolve(reply, sid) ==
    IF reply = Nil THEN Refused(BadCredential)
    ELSE IF ParseUuid(reply).ok THEN Resolved(PopulatedContainer(sid, ParseUuid(reply).uid))
    ELSE Refused(UuidError)

\* HeaderResolve with `Ok(None) => Ok(())`.
HeaderResolveNilPasses(reply, sid) ==
    IF reply = Nil THEN Resolved(AbsentContainer)
    ELSE IF ParseUuid(reply).ok THEN Resolved(PopulatedContainer(sid, ParseUuid(reply).uid))
    ELSE Refused(UuidError)

HeaderResolve(reply, sid) ==
    IF reply = Nil THEN Refused(BadCredential)
    ELSE IF ParseUuid(reply).ok THEN Resolved(PopulatedContainer(sid, ParseUuid(reply).uid))
    ELSE Refused(UuidError)

\* insert_empty_extension that inserts nothing.
insert_empty_extension_never(container) == container

\* insert_empty_extension without the is_none test.
insert_empty_extension_always(container) == EmptyContainer

\* insert_empty_extension: an absent container becomes the empty one.
insert_empty_extension(container) ==
    IF container.present THEN container ELSE EmptyContainer

\* ---------------------------------------------------------------- layers
\* Layers with the first two layers registered the other way round.
LayersSentryFirst == <<"sentry", "tracing", "config", "cookie">>

\* The layers of main.rs, outermost first.
Layers == <<"tracing", "sentry", "config", "cookie">>

\* The chain without the layer that attaches the store adapter.
RECURSIVE Without(_, _)
Without(layers, name) ==
    IF layers = <<>> THEN <<>>
    ELSE IF Head(layers) = name THEN Without(Tail(layers), name)
    ELSE <<Head(layers)>> \o Without(Tail(layers), name)

\* SentrySessionLayer::new: capture_server_errors.
CaptureServerErrors == TRUE

\* capture_boxed_error: what the sentry hub receives for a boxed error.
capture_boxed_error(e) ==
    IF e.kind = "Transport" THEN <<"capture_error">>
    ELSE IF e.kind # "Boxed" THEN <<"breadcrumb", "capture_message">>
    ELSE <<>>

\* The match on the inner result in TracingMiddleware::call and in
\* SentrySessionTracker::call: Ok(res) => Ok(res), Err(e) => Err(e).
tracing_result(r) == IF r.ok THEN OkResult ELSE ErrResult(r.err)
\* sentry_result that hands on a new error in place of the one it reported.
sentry_result_replacing(r) ==
    IF r.ok THEN OkResult ELSE ErrResult(ServiceError("Reported", {}))

sentry_result(r) == IF r.ok THEN OkResult ELSE ErrResult(r.err)

\* The span of the tracing layer: http.user_ip as given by X-Forwarded-For
\* ("" when absent or unreadable) and http.status, empty until recorded.
NoSpan == [open |-> FALSE, user_ip |-> "", status |-> ""]
OpenSpan(r) == [open |-> TRUE, user_ip |-> r.forwarded.text, status |-> ""]
RecordStatus(sp, r) == IF r.ok THEN [sp EXCEPT !.status = "200 OK"] ELSE sp

\* ClientOptions of main.rs leaves send_default_pii at its default.
WithPii == FALSE

\* A header value as sentry_request_from_http copies it:
\* v.to_str().unwrap_or_default().
HeaderString(h) == [pieces |-> h.pieces, text |-> h.text]
PresentHeaders(r) == { n \in {"cookie", "session", "forwarded"} : r[n].tag # "absent" }

\* sentry_request_from_http: the method, every header of the request with
\* its value, and REMOTE_ADDR when with_pii is set.
sentry_request_from_http(r, with_pii) ==
    [ method |-> "POST",
      headers |-> [n \in PresentHeaders(r) |-> HeaderString(r[n])],
      env |-> IF with_pii /\ r.forwarded.tag = "text"
              THEN {<<"REMOTE_ADDR", r.forwarded.text>>}
              ELSE {} ]
NoScope == [method |-> "", headers |-> [n \in {} |-> HeaderString(AbsentHeader)], env |-> {}]

\* From<ServiceError> for Status: the code get_code gives and the message.
StatusFrom(e) == [set |-> TRUE, code |-> get_code(e).code, message |-> e.kind]
\* What get_code hands to the sentry sink while it classifies e.
ClassifyReports(e) ==
    IF get_code(e).report = "none" THEN <<>>
    ELSE IF get_code(e).report = "exception+fatal" THEN <<"exception", "fatal">>
    ELSE <<get_code(e).report>>

\* A request as an interceptor has it: the headers and the extensions.
Request(headers, extensions) == [headers |-> headers, ext |-> extensions]
Passed(r) == [ok |-> TRUE, req |-> r, err |-> NoError]
Rejected(e) == [ok |-> FALSE, err |-> e]

\* cookie_session_interceptor with the two rejections exchanged.
cookie_session_interceptor_swapped(r) ==
    IF r.ext.container.present
    THEN IF r.ext.container.some THEN Passed(r) ELSE Rejected(MiddlewareNotSet)
    ELSE Rejected(BadCredential)

\* cookie_session_interceptor: the request itself when the container holds
\* a session, BadCredential when it holds none, MiddlewareNotSet when there
\* is no container.
cookie_session_interceptor(r) ==
    IF r.ext.container.present
    THEN IF r.ext.container.some THEN Passed(r) ELSE Rejected(BadCredential)
    ELSE Rejected(MiddlewareNotSet)

\* What the inner service answers: a response, or a transport error.
HandlerOutcomes == {OkResult, ErrResult(TransportError)}


\* ------------------------------------------------------------------- state
VARIABLES
    store,          \* the redis store: key -> record
    sinceResolved,  \* key -> seconds since its last successful resolution, -1: none within 24 h
    chain,          \* the layers installed at startup, outermost first
    pc,             \* "idle", "call" (going inwards), "ret" (coming back), "done"
    depth,          \* the layer the request is at; Len(chain) + 1 is the handler
    req,            \* the cookie and Session headers of the request
    ext,            \* the request extensions: the store adapter and the container
    trace,          \* the layers and the handler entered so far, in order
    lookups,        \* the GETEX commands of this request: key, seconds, reply
    resolution,     \* the outcome of inspect_request_metadata
    handlerSaw,     \* the container in the extensions when the handler was called
    result,         \* the result travelling back through the layers
    sink,           \* what the sentry hub received for this request
    span,           \* the span the tracing layer opened for this request
    scope,          \* the request data the sentry layer put on its scope
    slotWrites,     \* the containers inserted into the extensions, in order
    status,         \* the tonic Status a ServiceError was converted into
    config,         \* the EventConfigRequest of a streaming call: its count
    producer,       \* the spawned task: where it is in its loop, and the round
    inner,          \* the items in the mpsc channel of the stream
    response_stream,\* the ClientCancellableStream: "none", "alive" or "dropped"
    notifier,       \* the Notify of the stream: the calls of notify_one, the permit
    delivered,      \* the items the transport has taken from the stream
    sendErrors,     \* the sends that returned Err
    teardown,       \* why the stream was dropped
    sent,           \* the items whose send returned Ok, in order
    inbound,        \* the items of the inbound stream, in order of arrival
    taken,          \* the items stream.next() has given, in order
    buffer,         \* the Vec<String> of stream_message
    response,       \* the response of stream_message
    mainAt,         \* main: "setup", "serving", "draining", "flushing" or "exited"
    shutdownTask,   \* the shutdown task: "spawned", "waiting" for ctrl-c, or "done"
    notified,       \* the Notified future given to serve_with_shutdown: "none", "waiting", "woken"
    interrupts,     \* the OS interrupts delivered so far
    sendsAtSignal,  \* the sends a running producer had finished when notify_waiters
                    \* was called; -1: none was running, or no call yet
    svc,            \* the inner instances the server's service holds, outermost first
    ready,          \* the instances whose readiness is confirmed and unused
    calls,          \* the calls in flight: the instances each holds and has run on
    fresh,          \* the next instance id a clone gets
    cookiePath,     \* inspect_request_metadata for a credential sent as cookie
    headerPath      \* the same call for the same credential sent as Session header

streamVars == <<config, producer, inner, response_stream, notifier, delivered,
                sendErrors, teardown, sent>>

callVars == <<inbound, taken, buffer, response>>
shutdownVars == <<mainAt, shutdownTask, notified, interrupts, sendsAtSignal>>
readyVars == <<svc, ready, calls, fresh>>
pathVars == <<cookiePath, headerPath>>
otherVars == <<callVars, shutdownVars, readyVars, pathVars>>

vars == <<store, sinceResolved, chain, pc, depth, req, ext, trace, lookups,
          resolution, handlerSaw, result, sink, span, scope, slotWrites, status,
          streamVars, otherVars>>

NoResponse == [set |-> FALSE, ok |-> FALSE, content |-> ""]

\* inspect_request_metadata has not been called on either path.
NotInspected ==
    [set |-> FALSE, ok |-> FALSE, err |-> "", container |-> <<>>, store |-> <<>>,
     keys |-> <<>>]
NoPaths ==
    /\ cookiePath = NotInspected
    /\ headerPath = NotInspected

\* No streaming call is going on.
NoProducer == [at |-> "none", round |-> 0, slept |-> 0]
NoNotify == [calls |-> 0, permit |-> FALSE]
NoStream ==
    /\ config = [count |-> 0]
    /\ producer = NoProducer
    /\ inner = <<>>
    /\ response_stream = "none"
    /\ notifier = NoNotify
    /\ delivered = <<>>
    /\ sendErrors = 0
    /\ teardown = "none"
    /\ sent = <<>>
    /\ inbound = <<>>
    /\ taken = <<>>
    /\ buffer = <<>>
    /\ response = NoResponse

\* The server is serving and no interrupt has come.
Serving ==
    /\ mainAt = "serving"
    /\ shutdownTask = "waiting"
    /\ notified = "waiting"
    /\ interrupts = 0
    /\ sendsAtSignal = -1

\* The readiness of the layers is not looked at.
NoService ==
    /\ svc = <<>>
    /\ ready = {}
    /\ calls = <<>>
    /\ fresh = 0

requestVars == <<req, ext, trace, lookups, resolution, handlerSaw, result, sink,
                 span, scope, slotWrites, status>>

NoRequest == [cookie |-> AbsentHeader, session |-> AbsentHeader, forwarded |-> AbsentHeader]
NoStatus == [set |-> FALSE, code |-> "", message |-> ""]
NoExtensions == [pool |-> FALSE, container |-> AbsentContainer]
Pending == [state |-> "pending", err |-> NoError]
NoResult == [ok |-> FALSE, err |-> NoError]
NotCalled == [called |-> FALSE, container |-> AbsentContainer]

\* The store when the server starts: under c1 nothing or any of the values,
\* under c2 nothing or the value that is no UUID; every record has one step
\* of the clock left to live.
InitialRecords(k) ==
    {NoRecord} \cup
    { Record(v, TickSeconds) : v \in IF k = "c1" THEN StoredValues ELSE {Malformed} }

InitialStores ==
    { st \in [Creds -> {NoRecord} \cup { Record(v, TickSeconds) : v \in StoredValues }] :
        \A k \in Creds : st[k] \in InitialRecords(k) }

Fresh ==
    /\ req = NoRequest
    /\ ext = NoExtensions
    /\ trace = <<>>
    /\ lookups = <<>>
    /\ resolution = Pending
    /\ handlerSaw = NotCalled
    /\ result = NoResult
    /\ sink = <<>>
    /\ span = NoSpan
    /\ scope = NoScope
    /\ slotWrites = <<>>
    /\ status = NoStatus
    /\ NoStream
    /\ NoPaths

Init ==
    /\ store \in InitialStores
    /\ sinceResolved = [k \in Creds |-> -1]
    /\ chain \in {Layers, Without(Layers, "config")}
    /\ pc = "idle"
    /\ depth = 0
    /\ Fresh
    /\ Serving
    /\ NoService

AtLayer(name) == pc = "call" /\ depth \in 1..Len(chain) /\ chain[depth] = name
BackAt(name) == pc = "ret" /\ depth \in 1..Len(chain) /\ chain[depth] = name

Enter(name) ==
    /\ trace' = Append(trace, name)
    /\ depth' = depth + 1
    /\ pc' = "call"

\* The layer hands the result to the layer around it, or to the transport.
Leave ==
    /\ depth' = depth - 1
    /\ pc' = IF depth = 1 THEN "done" ELSE "ret"

\* A request comes in from the transport.
Arrive ==
    /\ pc = "idle"
    /\ \E c \in CookieHeaders, s \in SessionHeaders, f \in ForwardedHeaders :
          req' = [cookie |-> c, session |-> s, forwarded |-> f]
    /\ pc' = "call"
    /\ depth' = 1
    /\ UNCHANGED <<store, sinceResolved, chain, streamVars, otherVars, ext, trace, lookups, resolution,
                   handlerSaw, result, sink, span, scope, slotWrites, status>>

\* TracingMiddleware::call up to inner.call.
TracingCall ==
    /\ AtLayer("tracing")
    /\ span' = OpenSpan(req)
    /\ Enter("tracing")
    /\ UNCHANGED <<store, sinceResolved, chain, streamVars, otherVars, req, ext, lookups, resolution,
                   handlerSaw, result, sink, scope, slotWrites, status>>

\* TracingMiddleware::call after inner.call: the status of a response is
\* recorded on the span, and the result goes on.
TracingReturn ==
    /\ BackAt("tracing")
    /\ span' = RecordStatus(span, result)
    /\ result' = tracing_result(result)
    /\ Leave
    /\ UNCHANGED <<store, sinceResolved, chain, streamVars, otherVars, req, ext, trace, lookups,
                   resolution, handlerSaw, sink, scope, slotWrites, status>>

\* SentrySessionTracker::call up to inner.call.
SentryCall ==
    /\ AtLayer("sentry")
    /\ scope' = sentry_request_from_http(req, WithPii)
    /\ Enter("sentry")
    /\ UNCHANGED <<store, sinceResolved, chain, streamVars, otherVars, req, ext, lookups, resolution,
                   handlerSaw, result, sink, span, slotWrites, status>>

\* SentrySessionTracker::call after inner.call: an error is captured and
\* goes on as it is.
SentryReturn ==
    /\ BackAt("sentry")
    /\ sink' = IF ~result.ok /\ CaptureServerErrors
               THEN sink \o capture_boxed_error(result.err)
               ELSE sink
    /\ result' = sentry_result(result)
    /\ Leave
    /\ UNCHANGED <<store, sinceResolved, chain, streamVars, otherVars, req, ext, trace, lookups,
                   resolution, handlerSaw, span, scope, slotWrites, status>>

\* The config layer: the store adapter is put into the extensions.
ConfigCall ==
    /\ AtLayer("config")
    /\ ext' = [ext EXCEPT !.pool = TRUE]
    /\ Enter("config")
    /\ UNCHANGED <<store, sinceResolved, chain, streamVars, otherVars, req, lookups, resolution,
                   handlerSaw, result, sink, span, scope, slotWrites, status>>

ConfigReturn ==
    /\ BackAt("config")
    /\ Leave
    /\ UNCHANGED <<store, sinceResolved, chain, streamVars, otherVars, requestVars>>

\* The insert that turns the container `before` into the container `after`,
\* if they differ.
Inserted(before, after) == IF after = before THEN <<>> ELSE <<after>>

\* CookieEnds without the `?`: the inner service is called whatever
\* inspect_request_metadata returned.
CookieEndsUnchecked(outcome) ==
    /\ resolution' = [state |-> IF outcome.ok THEN "ok" ELSE "failed", err |-> outcome.err]
    /\ trace' = Append(trace, "cookie")
    /\ ext' = [ext EXCEPT !.container = insert_empty_extension(outcome.container)]
    /\ slotWrites' = slotWrites \o Inserted(ext.container, outcome.container)
                                \o Inserted(outcome.container,
                                            insert_empty_extension(outcome.container))
    /\ depth' = depth + 1
    /\ pc' = "call"
    /\ result' = result

\* The async block of CookieMiddleware::call ends: Ok(()) of
\* inspect_request_metadata is followed by insert_empty_extension and
\* inner.call, an error is returned by `?`.
CookieEnds(outcome) ==
    /\ resolution' = [state |-> IF outcome.ok THEN "ok" ELSE "failed", err |-> outcome.err]
    /\ trace' = Append(trace, "cookie")
    /\ IF outcome.ok
       THEN /\ ext' = [ext EXCEPT !.container = insert_empty_extension(outcome.container)]
            /\ slotWrites' = slotWrites \o Inserted(ext.container, outcome.container)
                                        \o Inserted(outcome.container,
                                                    insert_empty_extension(outcome.container))
            /\ depth' = depth + 1
            /\ pc' = "call"
            /\ result' = result
       ELSE /\ ext' = ext
            /\ slotWrites' = slotWrites
            /\ depth' = depth - 1
            /\ pc' = "ret"
            /\ result' = ErrResult(outcome.err)

\* CookieMiddleware::call: inspect_request_metadata with its GETEX round
\* trip, then insert_empty_extension and the call of the inner service.
CookieCall ==
    /\ AtLayer("cookie")
    /\ LET header == ParsedCookieHeader(req.cookie)
           session == ParsedSessionHeader(req.session)
           plan == ArmPlan(MatchArm(header, session, ext.pool), header, session)
           seconds == IF plan.path = "cookie" THEN CookieGetexSeconds
                      ELSE HeaderGetexSeconds
       IN  IF plan.do = "lookup"
           THEN \/ \* the store answers
                   LET reply == GetexReply(store, plan.key)
                       outcome == IF plan.path = "cookie"
                                  THEN CookieResolve(reply, plan.key)
                                  ELSE HeaderResolve(reply, plan.key)
                   IN  /\ store' = GetexStore(store, plan.key, seconds)
                       /\ lookups' = Append(lookups,
                             [key |-> plan.key, seconds |-> seconds, reply |-> reply])
                       /\ sinceResolved' =
                             IF outcome.ok THEN [sinceResolved EXCEPT ![plan.key] = 0]
                             ELSE sinceResolved
                       /\ CookieEnds(outcome)
                \/ \* the round trip fails, with the command carried out or not
                   \E f \in RedisFailures, done \in BOOLEAN :
                       /\ store' = IF done THEN GetexStore(store, plan.key, seconds)
                                   ELSE store
                       /\ lookups' = Append(lookups,
                             [key |-> plan.key, seconds |-> seconds, reply |-> "(error)"])
                       /\ sinceResolved' = sinceResolved
                       /\ CookieEnds(Refused(ServiceError("Redis", f)))
           ELSE /\ CookieEnds(IF plan.do = "ok" THEN Resolved(ext.container)
                              ELSE Refused(plan.err))
                /\ UNCHANGED <<store, sinceResolved, lookups>>
    /\ UNCHANGED <<chain, streamVars, otherVars, req, handlerSaw, sink, span, scope, status>>

\* The cookie middleware returns what the inner service returned.
CookieReturn ==
    /\ BackAt("cookie")
    /\ Leave
    /\ UNCHANGED <<store, sinceResolved, chain, streamVars, otherVars, requestVars>>

\* The service behind the layers handles the request.
HandlerCall ==
    /\ pc = "call"
    /\ depth = Len(chain) + 1
    /\ handlerSaw' = [called |-> TRUE, container |-> ext.container]
    /\ trace' = Append(trace, "handler")
    /\ \E out \in HandlerOutcomes : result' = out
    /\ pc' = "ret"
    /\ depth' = Len(chain)
    /\ UNCHANGED <<store, sinceResolved, chain, streamVars, otherVars, req, ext, lookups, resolution, sink,
                   span, scope, slotWrites, status>>

\* The transport has the result; the next request may come.
Complete ==
    /\ pc = "done"
    /\ pc' = "idle"
    /\ depth' = 0
    /\ req' = NoRequest
    /\ ext' = NoExtensions
    /\ trace' = <<>>
    /\ lookups' = <<>>
    /\ resolution' = Pending
    /\ handlerSaw' = NotCalled
    /\ result' = NoResult
    /\ sink' = <<>>
    /\ span' = NoSpan
    /\ scope' = NoScope
    /\ slotWrites' = <<>>
    /\ status' = NoStatus
    /\ UNCHANGED <<store, sinceResolved, chain, streamVars, otherVars>>

\* TickSeconds pass: records lose that much of their time to live, and a
\* record with none left is gone.
Expire(r) ==
    IF r.live /\ r.ttl > TickSeconds THEN Record(r.val, r.ttl - TickSeconds)
    ELSE NoRecord

Tick ==
    /\ store' = [k \in Creds |-> Expire(store[k])]
    /\ sinceResolved' =
          [k \in Creds |->
              IF sinceResolved[k] < 0 THEN -1
              ELSE IF sinceResolved[k] + TickSeconds >= WholeSeconds(SessionHours) THEN -1
              ELSE sinceResolved[k] + TickSeconds]
    /\ UNCHANGED <<chain, streamVars, otherVars, pc, depth, requestVars>>

Next ==
    \/ Arrive
    \/ TracingCall
    \/ SentryCall
    \/ ConfigCall
    \/ CookieCall
    \/ HandlerCall
    \/ CookieReturn
    \/ ConfigReturn
    \/ SentryReturn
    \/ TracingReturn
    \/ Complete
    \/ Tick

Spec == Init /\ [][Next]_vars


\* ------------------------------------------------- the authorization gate
\* The interceptor in front of the handler, on its own: a request with any
\* headers whose extensions hold no container, the empty container or a
\* populated one.
Containers ==
    {AbsentContainer, EmptyContainer} \cup { PopulatedContainer(c, UuidOf) : c \in Creds }

InitGate ==
    /\ store = [k \in Creds |-> NoRecord]
    /\ sinceResolved = [k \in Creds |-> -1]
    /\ chain = <<>>
    /\ pc = "gate"
    /\ depth = 0
    /\ \E c \in CookieHeaders, s \in SessionHeaders, f \in ForwardedHeaders :
          req = [cookie |-> c, session |-> s, forwarded |-> f]
    /\ \E c \in Containers, p \in BOOLEAN : ext = [pool |-> p, container |-> c]
    /\ trace = <<>>
    /\ lookups = <<>>
    /\ resolution = Pending
    /\ handlerSaw = NotCalled
    /\ result = NoResult
    /\ sink = <<>>
    /\ span = NoSpan
    /\ scope = NoScope
    /\ slotWrites = <<>>
    /\ status = NoStatus
    /\ NoStream
    /\ NoPaths
    /\ Serving
    /\ NoService

\* The interceptor runs: the request goes on to the handler, or the error
\* is converted into a Status and the call ends.
Gate ==
    /\ pc = "gate"
    /\ LET out == cookie_session_interceptor(Request(req, ext)) IN
       IF out.ok
       THEN /\ req' = out.req.headers
            /\ ext' = out.req.ext
            /\ pc' = "call"
            /\ depth' = Len(chain) + 1
            /\ UNCHANGED <<result, status, sink>>
       ELSE /\ result' = ErrResult(out.err)
            /\ status' = StatusFrom(out.err)
            /\ sink' = sink \o ClassifyReports(out.err)
            /\ pc' = "done"
            /\ UNCHANGED <<req, ext, depth>>
    /\ UNCHANGED <<store, sinceResolved, chain, streamVars, otherVars, trace, lookups, resolution,
                   handlerSaw, span, scope, slotWrites>>

NextGate ==
    \/ Gate
    \/ HandlerCall

SpecGate == InitGate /\ [][NextGate]_vars


\* ------------------------------------------------------------------ claims
\* What a request carries, read off its headers.
HasSessionCookie(r) ==
    /\ r.cookie.tag = "text"
    /\ \E i \in 1..Len(r.cookie.pieces) :
          r.cookie.pieces[i].eq /\ Trim(r.cookie.pieces[i].name) = "session"
HasSessionHeader(r) == r.session.tag # "absent"
\* The cookie header is absent, or readable with every piece a name=value pair.
CookieHeaderWellFormed(r) ==
    \/ r.cookie.tag = "absent"
    \/ /\ r.cookie.tag = "text"
       /\ \A i \in 1..Len(r.cookie.pieces) :
             r.cookie.pieces[i].eq /\ Trim(r.cookie.pieces[i].name) # ""
SessionHeaderWellFormed(r) == r.session.tag # "opaque"
\* The values of the session cookies and of the Session header of a request.
PresentedCredentials(r) ==
    { Trim(r.cookie.pieces[i].value) :
        i \in { j \in 1..Len(r.cookie.pieces) :
                  r.cookie.pieces[j].eq /\ Trim(r.cookie.pieces[j].name) = "session" } }
    \cup (IF r.session.tag = "text" THEN {r.session.text} ELSE {})

\* Session resolution has run for the request in flight.
ResolutionOver == resolution.state # "pending"
HandlerNext == pc = "call" /\ depth = Len(chain) + 1
IsPrefix(a, b) == Len(a) <= Len(b) /\ a = SubSeq(b, 1, Len(a))
Among(seq, names) == SelectSeq(seq, LAMBDA x : x \in names)

\* C1: every request enters tracing, then error reporting (sentry), then
\* session resolution (cookie), in that order, and the handler is entered
\* only after all three, with session resolution having returned Ok.
C1_DecoratorOrder ==
    /\ IsPrefix(Among(trace, {"tracing", "sentry", "cookie", "handler"}),
                <<"tracing", "sentry", "cookie", "handler">>)
    /\ handlerSaw.called <=> "handler" \in { trace[i] : i \in 1..Len(trace) }
    /\ handlerSaw.called => resolution.state = "ok"

C1_Witness ==
    /\ handlerSaw.called
    /\ trace = <<"tracing", "sentry", "config", "cookie", "handler">>

\* C2: once session resolution has failed, the handler is not called for
\* that request, no container is inserted, and the result that travels back
\* to the transport is that error.
C2_FailureAborts ==
    resolution.state = "failed" =>
        /\ ~handlerSaw.called
        /\ ~HandlerNext
        /\ ext.container = AbsentContainer
        /\ result = ErrResult(resolution.err)
        /\ resolution.err # NoError

C2_Witness ==
    /\ pc = "done"
    /\ resolution.state = "failed"
    /\ resolution.err.kind = "Redis"
    /\ result = ErrResult(resolution.err)
    /\ trace = <<"tracing", "sentry", "config", "cookie">>

\* C3: a well-formed request that carries a session cookie or a Session
\* header, with the store adapter attached, has the store asked for a
\* credential it carries.
C3_CredentialIsLookedUp ==
    ( /\ ResolutionOver
      /\ ext.pool
      /\ CookieHeaderWellFormed(req)
      /\ SessionHeaderWellFormed(req)
      /\ HasSessionCookie(req) \/ HasSessionHeader(req) )
    => /\ Len(lookups) = 1
       /\ lookups[1].key \in PresentedCredentials(req)

NoCredential(r) == ~HasSessionCookie(r) /\ ~HasSessionHeader(r)
NoLookupEmptyContainer ==
    /\ lookups = <<>>
    /\ resolution.state = "ok"
    /\ ext.container = EmptyContainer
    /\ handlerSaw.called \/ HandlerNext
    /\ handlerSaw.called => handlerSaw.container = EmptyContainer

\* C5 as stated: a request without session cookie and without Session
\* header, with the store adapter attached, causes no lookup, gets the empty
\* container and reaches the handler.
C5_Original ==
    (ResolutionOver /\ ext.pool /\ NoCredential(req)) => NoLookupEmptyContainer

\* C5 as amended: the same, for a request whose cookie header, if there is
\* one, is readable and has only name=value pieces.
C5_NoCredentialProceeds ==
    (ResolutionOver /\ ext.pool /\ NoCredential(req) /\ CookieHeaderWellFormed(req))
    => NoLookupEmptyContainer

C5_Witness ==
    /\ handlerSaw.called
    /\ handlerSaw.container = EmptyContainer
    /\ req.cookie.tag = "text"
    /\ req.session.tag = "absent"
    /\ lookups = <<>>

C7_MalformedIdentityIsDataLoss ==
    \A i \in 1..Len(lookups) :
        lookups[i].reply = Malformed =>
            /\ resolution.state = "failed"
            /\ result.err # BadCredential
            /\ ~handlerSaw.called
            /\ get_code(result.err).code = "DataLoss"

\* C8: a key resolved successfully has 86400 seconds to live right after,
\* on either path, and as long as fewer than 86400 seconds have passed since,
\* its record is in the store with at least the rest of them to live.
C8_RollingWindow ==
    \A k \in Creds :
        sinceResolved[k] >= 0 =>
            /\ sinceResolved[k] < 86400
            /\ store[k].live
            /\ store[k].ttl >= 86400 - sinceResolved[k]
            /\ sinceResolved[k] = 0 => store[k].ttl = 86400

C8_Witness ==
    /\ pc = "done"
    /\ result.ok
    /\ ext.container.some
    /\ sinceResolved[ext.container.sid] > 0
    /\ store[ext.container.sid].live

\* C9: no step of a request adds a key to the store, removes one or changes
\* the value under one; only the passing of time removes records.  A lookup
\* of a key without record leaves the store as it is.
C9_StoreContentsKept ==
    [][ \/ Tick
        \/ \A k \in Creds :
              /\ store'[k].live = store[k].live
              /\ store'[k].val = store[k].val
              /\ ~store[k].live => store'[k] = store[k] ]_vars

C9_Witness ==
    /\ pc = "ret"
    /\ Len(lookups) = 1
    /\ lookups[1].reply = Nil
    /\ ~store[lookups[1].key].live
    /\ \E k \in Creds : store[k].live /\ store[k].ttl = 86400

\* C10: a request that went through session resolution without the store
\* adapter in its extensions failed with MiddlewareNotSet, whatever headers
\* it carries, and the handler was not called.
C10_MissingAdapter ==
    (ResolutionOver /\ ~ext.pool) =>
        /\ resolution = [state |-> "failed", err |-> MiddlewareNotSet]
        /\ ~handlerSaw.called

\* ------------------------------------------------- the cancellable stream
\* Notify::notify_one with no task waiting: the call stores the one permit.
notify_one(n) == [calls |-> n.calls + 1, permit |-> TRUE]

\* Drop for ClientCancellableStream that leaves the notifier alone.
drop_silent(n) == n

\* Drop for ClientCancellableStream: self.notifier.notify_one().
drop(n) == notify_one(n)

\* mpsc::Sender::send finds room: fewer items queued than the capacity.
has_capacity(q) == Len(q) < ChannelCapacity

\* poll_recv that takes the newest item.
poll_recv_newest(q) == [item |-> q[Len(q)], rest |-> SubSeq(q, 1, Len(q) - 1)]

\* poll_next = inner.poll_recv on a queue that holds something: the oldest
\* item, and what stays queued.
poll_recv(q) == [item |-> Head(q), rest |-> Tail(q)]

\* The item of a round that counts from one.
event_item_round(round) == round

\* The item of a round: format!("message: {}", round + 1), kept as the number.
event_item(round) == round + 1

\* One server-streaming call, from the handler on: no stream yet.
InitStream ==
    /\ store = [k \in Creds |-> NoRecord]
    /\ sinceResolved = [k \in Creds |-> -1]
    /\ chain = <<>>
    /\ pc = "stream"
    /\ depth = 0
    /\ Fresh
    /\ Serving
    /\ NoService

requestState == <<store, sinceResolved, chain, pc, depth, requestVars>>

\* event_message: ClientCancellableStream::new(), the task is spawned, the
\* stream is the response.  The Arc<Notify> that new() returns is let go.
EventMessage ==
    /\ response_stream = "none"
    /\ mainAt = "serving"
    /\ \E n \in 0..MaxCount : config' = [count |-> n]
    /\ inner' = <<>>
    /\ notifier' = NoNotify
    /\ response_stream' = "alive"
    /\ producer' = [at |-> "sleep", round |-> 0, slept |-> 0]
    /\ UNCHANGED <<delivered, sendErrors, teardown, sent, otherVars, requestState>>

\* The task: `for round in 0..config.count`, first the sleep.
Sleep ==
    /\ producer.at = "sleep"
    /\ producer.round < config.count
    /\ producer' = [producer EXCEPT !.at = "send", !.slept = @ + 1]
    /\ UNCHANGED <<config, inner, response_stream, notifier, delivered, sendErrors,
                   teardown, sent, otherVars, requestState>>

\* responder.send(..).await: Err when the receiver is gone, which is logged
\* and the loop goes on; otherwise the item is queued once there is room.
Send ==
    /\ producer.at = "send"
    /\ IF response_stream = "dropped"
       THEN /\ sendErrors' = sendErrors + 1
            /\ inner' = inner
            /\ sent' = sent
       ELSE /\ has_capacity(inner)
            /\ inner' = Append(inner, event_item(producer.round))
            /\ sent' = Append(sent, event_item(producer.round))
            /\ sendErrors' = sendErrors
    /\ producer' = [producer EXCEPT !.at = "sleep", !.round = @ + 1]
    /\ UNCHANGED <<config, response_stream, notifier, delivered, teardown, otherVars, requestState>>

\* The loop is over: the task ends and the sender is dropped.
ProducerExit ==
    /\ producer.at = "sleep"
    /\ producer.round >= config.count
    /\ producer' = [producer EXCEPT !.at = "done"]
    /\ UNCHANGED <<config, inner, response_stream, notifier, delivered, sendErrors,
                   teardown, sent, otherVars, requestState>>

\* poll_next = inner.poll_recv: the transport takes the oldest item.
PollItem ==
    /\ response_stream = "alive"
    /\ inner # <<>>
    /\ delivered' = Append(delivered, poll_recv(inner).item)
    /\ inner' = poll_recv(inner).rest
    /\ UNCHANGED <<config, producer, response_stream, notifier, sendErrors, teardown,
                   sent, otherVars, requestState>>

\* poll_next gives None: nothing queued and the sender dropped.
PollEnd ==
    /\ response_stream = "alive"
    /\ inner = <<>>
    /\ producer.at = "done"
    /\ response_stream' = "ended"
    /\ UNCHANGED <<config, producer, inner, notifier, delivered, sendErrors, teardown,
                   sent, otherVars, requestState>>

\* The owner of the stream lets it go, for the given reason: Drop runs and
\* the receiver goes with it.
Teardown(why) ==
    /\ notifier' = drop(notifier)
    /\ response_stream' = "dropped"
    /\ inner' = <<>>
    /\ teardown' = why
    /\ UNCHANGED <<config, producer, delivered, sendErrors, sent, otherVars, requestState>>

\* The transport drops the body it has sent to the end.
Release == response_stream = "ended" /\ Teardown("completed")
\* The client cancels the call.
ClientCancel == response_stream \in {"alive", "ended"} /\ Teardown("cancel")
\* The connection of the client is gone.
ClientDisconnect == response_stream \in {"alive", "ended"} /\ Teardown("disconnect")

NextStream ==
    \/ EventMessage
    \/ Sleep
    \/ Send
    \/ ProducerExit
    \/ PollItem
    \/ PollEnd
    \/ Release
    \/ ClientCancel
    \/ ClientDisconnect

SpecStream == InitStream /\ [][NextStream]_vars

\* The same call with a client that stays and keeps polling.  The runtime
\* runs the spawned task and fires its timer, and the transport polls the
\* body it is sending: each of these steps is taken if it stays possible.
NextEvent ==
    \/ EventMessage
    \/ Sleep
    \/ Send
    \/ ProducerExit
    \/ PollItem
    \/ PollEnd
    \/ Release

SpecEvent ==
    /\ InitStream
    /\ [][NextEvent]_vars
    /\ WF_vars(Sleep)
    /\ WF_vars(Send)
    /\ WF_vars(ProducerExit)
    /\ WF_vars(PollItem)
    /\ WF_vars(PollEnd)
    /\ WF_vars(Release)

\* ------------------------------------------------- the inbound streams
\* What a client sends on an inbound stream: text items, and at most one
\* error, after which a tonic Streaming gives nothing more.
OkItem(c) == [ok |-> TRUE, content |-> c]
ErrItem == [ok |-> FALSE, content |-> ""]

RECURSIVE OkSeqs(_)
OkSeqs(n) ==
    IF n = 0 THEN {<<>>}
    ELSE LET shorter == OkSeqs(n - 1)
         IN  shorter \cup { Append(q, OkItem(c)) : q \in shorter, c \in Contents }

Inbounds ==
    OkSeqs(MaxInbound) \cup { Append(q, ErrItem) : q \in OkSeqs(MaxInbound - 1) }

\* stream.next() that gives the items from the newest to the oldest.
stream_next_last(q, n) ==
    IF n < Len(q) THEN [some |-> TRUE, item |-> q[Len(q) - n]]
    ELSE [some |-> FALSE, item |-> ErrItem]

\* stream.next().await after n items were given: the next item in order of
\* arrival, or None once the inbound stream is over.
stream_next(q, n) ==
    IF n < Len(q) THEN [some |-> TRUE, item |-> q[n + 1]]
    ELSE [some |-> FALSE, item |-> ErrItem]

\* chat_message: the inbound stream is taken from the request, the stream
\* is made and given as the response, the relaying task is spawned.
ChatMessage ==
    /\ response_stream = "none"
    /\ pc = "stream"
    /\ \E q \in Inbounds : inbound' = q
    /\ taken' = <<>>
    /\ inner' = <<>>
    /\ notifier' = NoNotify
    /\ response_stream' = "alive"
    /\ producer' = [at |-> "next", round |-> 0, slept |-> 0]
    /\ UNCHANGED <<config, delivered, sendErrors, teardown, sent, buffer, response,
                   shutdownVars, readyVars, pathVars, requestState>>

\* The task: `while let Some(message) = stream.next().await`, and
\* `if let Ok(message) = message`: an Ok item goes on to the send, any other
\* item is passed over, None ends the task and drops the sender.
ChatNext ==
    /\ producer.at = "next"
    /\ LET next == stream_next(inbound, Len(taken))
       IN  IF next.some
           THEN /\ taken' = Append(taken, next.item)
                /\ producer' = [producer EXCEPT !.at = IF next.item.ok THEN "send" ELSE "next"]
           ELSE /\ taken' = taken
                /\ producer' = [producer EXCEPT !.at = "done"]
    /\ UNCHANGED <<config, inner, response_stream, notifier, delivered, sendErrors,
                   teardown, sent, inbound, buffer, response, shutdownVars, readyVars, pathVars,
                   requestState>>

\* responder.send(Ok(ResponseMessage { content: message.content })).await:
\* Err when the receiver is gone, which is logged and the loop goes on.
ChatSend ==
    /\ producer.at = "send"
    /\ IF response_stream = "dropped"
       THEN /\ sendErrors' = sendErrors + 1
            /\ inner' = inner
            /\ sent' = sent
       ELSE /\ has_capacity(inner)
            /\ inner' = Append(inner, taken[Len(taken)].content)
            /\ sent' = Append(sent, taken[Len(taken)].content)
            /\ sendErrors' = sendErrors
    /\ producer' = [producer EXCEPT !.at = "next"]
    /\ UNCHANGED <<config, response_stream, notifier, delivered, teardown, otherVars,
                   requestState>>

\* One bidirectional call.  The client ends its inbound stream; it may go
\* away at any moment; while it stays the transport polls the body.
NextChat ==
    \/ ChatMessage
    \/ ChatNext
    \/ ChatSend
    \/ PollItem
    \/ PollEnd
    \/ Release
    \/ ClientCancel
    \/ ClientDisconnect

SpecChat ==
    /\ InitStream
    /\ [][NextChat]_vars
    /\ WF_vars(ChatNext)
    /\ WF_vars(ChatSend)
    /\ WF_vars(PollItem)
    /\ WF_vars(PollEnd)
    /\ WF_vars(Release)

\* ------------------------------------------------- the aggregate
\* A join that puts nothing between the items.
RECURSIVE join_no_separator(_, _)
join_no_separator(v, sep) ==
    IF v = <<>> THEN "" ELSE Head(v) \o join_no_separator(Tail(v), sep)

\* [String]::join(sep): the items with sep between each two of them.
RECURSIVE join(_, _)
join(v, sep) ==
    IF v = <<>> THEN ""
    ELSE IF Len(v) = 1 THEN Head(v)
         ELSE Head(v) \o sep \o join(Tail(v), sep)

aggregateFrame == <<store, sinceResolved, chain, depth, requestVars, streamVars,
                    shutdownVars, readyVars, pathVars>>

\* stream_message: an empty buffer, the inbound stream out of the request.
StreamMessage ==
    /\ pc = "stream"
    /\ response_stream = "none"
    /\ \E q \in Inbounds : inbound' = q
    /\ taken' = <<>>
    /\ buffer' = <<>>
    /\ response' = NoResponse
    /\ pc' = "aggregate"
    /\ UNCHANGED aggregateFrame

\* `while let Some(message) = stream.next().await`, `if let Ok(message)`:
\* the content of an Ok item is pushed, any other item is passed over.
AggregateNext ==
    /\ pc = "aggregate"
    /\ stream_next(inbound, Len(taken)).some
    /\ LET item == stream_next(inbound, Len(taken)).item
       IN  /\ taken' = Append(taken, item)
           /\ buffer' = IF item.ok THEN Append(buffer, item.content) ELSE buffer
    /\ UNCHANGED <<inbound, response, pc, aggregateFrame>>

\* stream.next() gave None: Ok(Response::new(ResponseMessage { content:
\* buffer.join(",") })).
AggregateReply ==
    /\ pc = "aggregate"
    /\ ~stream_next(inbound, Len(taken)).some
    /\ response' = [set |-> TRUE, ok |-> TRUE, content |-> join(buffer, ",")]
    /\ pc' = "replied"
    /\ UNCHANGED <<inbound, taken, buffer, aggregateFrame>>

NextAggregate ==
    \/ StreamMessage
    \/ AggregateNext
    \/ AggregateReply

SpecAggregate == InitStream /\ [][NextAggregate]_vars

\* ------------------------------------------------------------ shutdown
\* Notify::notify_waiters: every Notified future that exists is woken; no
\* permit is stored, so one made later waits for a later call.
notify_waiters(n) == IF n = "waiting" THEN "woken" ELSE n

\* main has made the notifier and spawned the shutdown task.
Starting ==
    /\ mainAt = "setup"
    /\ shutdownTask = "spawned"
    /\ notified = "none"
    /\ interrupts = 0
    /\ sendsAtSignal = -1

InitShutdown ==
    /\ store = [k \in Creds |-> NoRecord]
    /\ sinceResolved = [k \in Creds |-> -1]
    /\ chain = <<>>
    /\ pc = "stream"
    /\ depth = 0
    /\ Fresh
    /\ Starting
    /\ NoService

shutdownFrame == <<requestState, streamVars, callVars, readyVars, pathVars>>

\* The shutdown task is polled: signal::ctrl_c() installs the handler and
\* the task waits.
AwaitCtrlC ==
    /\ shutdownTask = "spawned"
    /\ shutdownTask' = "waiting"
    /\ UNCHANGED <<mainAt, notified, interrupts, sendsAtSignal, shutdownFrame>>

\* The OS delivers an interrupt to the process, the handler being installed.
Interrupt ==
    /\ shutdownTask # "spawned"
    /\ mainAt \in {"setup", "serving", "draining"}
    /\ interrupts < MaxInterrupts
    /\ interrupts' = interrupts + 1
    /\ UNCHANGED <<mainAt, shutdownTask, notified, sendsAtSignal, shutdownFrame>>

\* ctrl_c() resolves: shutdown_signal_notifier.notify_waiters(), and the
\* task ends.
NotifyWaiters ==
    /\ shutdownTask = "waiting"
    /\ interrupts > 0
    /\ notified' = notify_waiters(notified)
    /\ shutdownTask' = "done"
    /\ sendsAtSignal' = IF producer.at \in {"sleep", "send"}
                        THEN Len(sent) + sendErrors ELSE -1
    /\ UNCHANGED <<mainAt, interrupts, shutdownFrame>>

\* main: the layers, the health reporter, then serve_with_shutdown(addr,
\* shutdown_signal_notifier.notified()): the future is made here, and no
\* call before this one has left a permit for it.
ServeWithShutdown ==
    /\ mainAt = "setup"
    /\ mainAt' = "serving"
    /\ notified' = "waiting"
    /\ UNCHANGED <<shutdownTask, interrupts, sendsAtSignal, shutdownFrame>>

\* The future given to serve_with_shutdown resolves: the server stops
\* accepting and lets the calls in flight finish.
StopAccepting ==
    /\ mainAt = "serving"
    /\ notified = "woken"
    /\ mainAt' = "draining"
    /\ UNCHANGED <<shutdownTask, notified, interrupts, sendsAtSignal, shutdownFrame>>

\* No call is in flight any more: serve_with_shutdown returns.
Drained ==
    /\ mainAt = "draining"
    /\ response_stream \notin {"alive", "ended"}
    /\ mainAt' = "flushing"
    /\ UNCHANGED <<shutdownTask, notified, interrupts, sendsAtSignal, shutdownFrame>>

\* select!: the flush of the sentry client is over.
FlushDone ==
    /\ mainAt = "flushing"
    /\ mainAt' = "exited"
    /\ UNCHANGED <<shutdownTask, notified, interrupts, sendsAtSignal, shutdownFrame>>

\* select!: another interrupt comes during the flush.
ForceShutdown ==
    /\ mainAt = "flushing"
    /\ interrupts < MaxInterrupts
    /\ interrupts' = interrupts + 1
    /\ mainAt' = "exited"
    /\ UNCHANGED <<shutdownTask, notified, sendsAtSignal, shutdownFrame>>

\* The process from the spawn of the shutdown task on, with one
\* server-streaming call.
NextShutdown ==
    \/ AwaitCtrlC
    \/ Interrupt
    \/ NotifyWaiters
    \/ ServeWithShutdown
    \/ StopAccepting
    \/ Drained
    \/ FlushDone
    \/ ForceShutdown
    \/ EventMessage
    \/ Sleep
    \/ Send
    \/ ProducerExit
    \/ PollItem
    \/ PollEnd
    \/ Release
    \/ ClientDisconnect

SpecShutdown == InitShutdown /\ [][NextShutdown]_vars

\* ------------------------------------------------- readiness of the layers
\* The decorators that keep an inner service, outermost first.  A service
\* is written as the instances nested in it: what tracing holds as inner
\* (a sentry middleware), what that one holds (a cookie middleware), and
\* what that one holds (the routes).
Decorators == <<"tracing", "sentry", "cookie">>

\* self.inner.clone(): a copy of the inner service and of all it holds,
\* none of them the instance poll_ready was called on.
clone(t, next) == [i \in 1..Len(t) |-> next + i - 1]

\* A call that runs on the clone and leaves the instance it had in place.
take_inner_clone(held, copy) == [used |-> copy, kept |-> held]

\* `let clone = self.inner.clone(); let mut inner = mem::replace(&mut
\* self.inner, clone)`: the call gets the instance the decorator held, the
\* decorator keeps the clone.
take_inner(held, copy) == [used |-> held, kept |-> copy]

\* The service of one connection is built; nothing is confirmed ready.
Built ==
    /\ svc = clone(Decorators, 1)
    /\ ready = {}
    /\ calls = <<>>
    /\ fresh = Len(Decorators) + 1

InitReady ==
    /\ store = [k \in Creds |-> NoRecord]
    /\ sinceResolved = [k \in Creds |-> -1]
    /\ chain = <<>>
    /\ pc = "stream"
    /\ depth = 0
    /\ Fresh
    /\ Serving
    /\ Built

readyFrame == <<requestState, streamVars, callVars, shutdownVars, pathVars>>

\* poll_ready of the outermost decorator: each one asks its inner, down to
\* the routes; on Ready every instance the service holds is confirmed.
PollReady ==
    /\ ready' = ready \cup { svc[i] : i \in 1..Len(svc) }
    /\ ready' # ready
    /\ UNCHANGED <<svc, calls, fresh, readyFrame>>

\* The connection calls the service it has seen ready: TracingMiddleware::call
\* takes its inner for the future it returns and keeps a clone.
Call ==
    /\ Len(calls) < MaxCalls
    /\ svc[1] \in ready
    /\ LET taken_inner == take_inner(svc, clone(svc, fresh))
       IN  /\ svc' = taken_inner.kept
           /\ calls' = Append(calls, [held |-> taken_inner.used, ran |-> <<>>,
                                      done |-> FALSE])
    /\ fresh' = fresh + Len(svc)
    /\ UNCHANGED <<ready, readyFrame>>

\* The future of call i is polled: the decorator it is at runs
\* inner.call(req) on the instance it took.  That instance, a decorator
\* itself or the routes, uses up its readiness; a decorator takes its own
\* inner for its future in the same way.
InnerCall(i) ==
    /\ i \in 1..Len(calls)
    /\ ~calls[i].done
    /\ LET on == Head(calls[i].held)
           below == Tail(calls[i].held)
           taken_inner == take_inner(below, clone(below, fresh))
       IN  /\ calls' = [calls EXCEPT
                          ![i].ran = Append(@, [instance |-> on, confirmed |-> on \in ready]),
                          ![i].held = taken_inner.used,
                          ![i].done = (below = <<>>)]
           /\ ready' = ready \ {on}
           /\ fresh' = fresh + Len(below)
    /\ UNCHANGED <<svc, readyFrame>>

\* CookieMiddleware: inspect_request_metadata(&mut req).await? fails and
\* the future ends without a call on the routes it took.
CookieRejects(i) ==
    /\ i \in 1..Len(calls)
    /\ ~calls[i].done
    /\ Len(calls[i].ran) = Len(Decorators) - 1
    /\ calls' = [calls EXCEPT ![i].done = TRUE]
    /\ UNCHANGED <<svc, ready, fresh, readyFrame>>

NextReady ==
    \/ PollReady
    \/ Call
    \/ \E i \in 1..MaxCalls : InnerCall(i)
    \/ \E i \in 1..MaxCalls : CookieRejects(i)

SpecReady == InitReady /\ [][NextReady]_vars

\* ------------------------------------------------- the two paths side by side
\* What the round trip to the store does: it answers, or it fails with the
\* command carried out or not.
StoreAnswers ==
    {[fails |-> FALSE, is |-> {}, done |-> TRUE]} \cup
    { [fails |-> TRUE, is |-> f, done |-> d] : f \in RedisFailures, d \in BOOLEAN }

\* inspect_request_metadata as a function of the request, the store adapter
\* being attached or not, the store and what the round trip does: the
\* result, the container it inserted, the store after it and the keys it
\* asked for.
inspect_request_metadata(r, pool, st, io) ==
    LET header == ParsedCookieHeader(r.cookie)
        session == ParsedSessionHeader(r.session)
        plan == ArmPlan(MatchArm(header, session, pool), header, session)
        seconds == IF plan.path = "cookie" THEN CookieGetexSeconds ELSE HeaderGetexSeconds
        answered == IF plan.path = "cookie"
                    THEN CookieResolve(GetexReply(st, plan.key), plan.key)
                    ELSE HeaderResolve(GetexReply(st, plan.key), plan.key)
        outcome == IF plan.do = "lookup"
                   THEN IF io.fails THEN Refused(ServiceError("Redis", io.is)) ELSE answered
                   ELSE IF plan.do = "ok" THEN Resolved(AbsentContainer)
                   ELSE Refused(plan.err)
    IN  [set |-> TRUE,
         ok |-> outcome.ok,
         err |-> outcome.err.kind,
         container |-> outcome.container,
         store |-> IF plan.do = "lookup" /\ io.done
                   THEN GetexStore(st, plan.key, seconds) ELSE st,
         keys |-> IF plan.do = "lookup" THEN <<plan.key>> ELSE <<>>]

\* The request that carries c as session cookie only, and the one that
\* carries it as Session header only.
CookieOnly(c) ==
    [cookie |-> CookieText(<<RawCookie(TRUE, "session", c)>>), session |-> AbsentHeader,
     forwarded |-> AbsentHeader]
HeaderOnly(c) ==
    [cookie |-> AbsentHeader, session |-> SessionText(c), forwarded |-> AbsentHeader]

InitPaths ==
    /\ store \in InitialStores
    /\ sinceResolved = [k \in Creds |-> -1]
    /\ chain = <<>>
    /\ pc = "paths"
    /\ depth = 0
    /\ Fresh
    /\ Serving
    /\ NoService

\* One credential goes through both arms against the same store and the
\* same behaviour of the round trip; the store goes on as one of them left it.
InspectBoth ==
    /\ pc = "paths"
    /\ \E c \in Creds, io \in StoreAnswers :
          /\ cookiePath' = inspect_request_metadata(CookieOnly(c), TRUE, store, io)
          /\ headerPath' = inspect_request_metadata(HeaderOnly(c), TRUE, store, io)
    /\ store' \in {cookiePath'.store, headerPath'.store}
    /\ UNCHANGED <<sinceResolved, chain, pc, depth, requestVars, streamVars, callVars,
                   shutdownVars, readyVars>>

NextPaths ==
    \/ InspectBoth
    \/ Tick

SpecPaths == InitPaths /\ [][NextPaths]_vars


\* ------------------------------------------------------- classification
\* The error values get_code is given: every variant of ServiceError, and
\* for the variants that wrap a library error every answer its predicates
\* can give.
ReqwestCauses ==
    {"body", "builder", "connect", "decode", "redirect", "timeout", "request", "status"}
RedisCauses == {"timeout", "cluster", "dropped", "refused", "io"}
LapinVariants ==
    {"ChannelsLimitReached", "InvalidProtocolVersion", "InvalidChannel",
     "InvalidChannelState", "InvalidConnectionState", "IOError", "ParsingError",
     "ProtocolError", "SerialisationError", "MissingHeartbeatError"}
\* A JoinError is a panic or a cancellation; the guards also let through one
\* that is neither.
JoinCauses == {{"panic"}, {"cancelled"}, {}}
PlainKinds ==
    {"MiddlewareNotSet", "ConfigNotSet", "RcHasReference", "ParseMessage",
     "ValidateFailure", "ParseInt", "ParseUtf8", "BadCredential", "Rejected",
     "Uuid", "TryFrom", "EmptySliceIndex", "SendError", "OneshotRecvError",
     "SemaphoreAquire", "QueueDeclareTimeout", "QueueBindTimeout",
     "QueueBasicConsumeTimeout", "QueueBasicAckTimeout", "ClientTimeout",
     "CookieParse", "HttpHeader", "HttpHeaderNotFound", "MsgPackDecodeError",
     "MsgPackEncodeError"}
ErrorValues ==
    { ServiceError("Reqwest", is) : is \in SUBSET ReqwestCauses }
    \cup { ServiceError("Redis", is) : is \in SUBSET RedisCauses }
    \cup { ServiceError("LapinAMQP", {v}) : v \in LapinVariants }
    \cup { ServiceError("TaskJoinError", is) : is \in JoinCauses }
    \cup { ServiceError(k, {}) : k \in PlainKinds }

InitClassify ==
    /\ store = [k \in Creds |-> NoRecord]
    /\ sinceResolved = [k \in Creds |-> -1]
    /\ chain = <<>>
    /\ pc = "classify"
    /\ depth = 0
    /\ req = NoRequest
    /\ ext = NoExtensions
    /\ trace = <<>>
    /\ lookups = <<>>
    /\ resolution = Pending
    /\ handlerSaw = NotCalled
    /\ \E e \in ErrorValues : result = ErrResult(e)
    /\ sink = <<>>
    /\ span = NoSpan
    /\ scope = NoScope
    /\ slotWrites = <<>>
    /\ status = NoStatus
    /\ NoStream
    /\ NoPaths
    /\ Serving
    /\ NoService

\* From<ServiceError> for Status: get_code classifies the error, reporting
\* to the sink as it goes, and the Status is built from its code.
Classify ==
    /\ pc = "classify"
    /\ status' = StatusFrom(result.err)
    /\ sink' = sink \o ClassifyReports(result.err)
    /\ pc' = "classified"
    /\ UNCHANGED <<store, sinceResolved, chain, streamVars, otherVars, depth, req, ext, trace, lookups,
                   resolution, handlerSaw, result, span, scope, slotWrites>>

NextClassify == Classify

SpecClassify == InitClassify /\ [][NextClassify]_vars


\* C11: the authorization gate lets a request through, and then unchanged,
\* exactly when its container is present and populated; with no container it
\* rejects with MiddlewareNotSet (status Internal), with the empty container
\* with BadCredential (status Unauthenticated).
C11_GateVerdicts ==
    [][pc = "gate" =>
        LET c == ext.container IN
        /\ (c.present /\ c.some) =>
              (pc' = "call" /\ req' = req /\ ext' = ext /\ status' = NoStatus)
        /\ ~c.present =>
              (pc' = "done" /\ result' = ErrResult(MiddlewareNotSet)
                 /\ status'.code = "Internal")
        /\ (c.present /\ ~c.some) =>
              (pc' = "done" /\ result' = ErrResult(BadCredential)
                 /\ status'.code = "Unauthenticated")]_vars
\* The gate has rejected a request whose container is empty.
C11_Witness ==
    /\ pc = "done" /\ chain = <<>>
    /\ ext.container = EmptyContainer
    /\ status.code = "Unauthenticated"

\* C12: once session resolution has let the request through, the container
\* slot has been written exactly once, the handler is given what was written,
\* and that is never the absent container; a populated container stays.
C12_SlotWrittenOnce ==
    resolution.state = "ok" =>
        /\ Len(slotWrites) = 1
        /\ slotWrites[1].present
        /\ ext.container = slotWrites[1]
        /\ handlerSaw.called \/ HandlerNext
        /\ handlerSaw.called => handlerSaw.container = slotWrites[1]
        /\ (\E i \in 1..Len(lookups) : lookups[i].reply \in {ValidLower, ValidUpper})
              => slotWrites[1].some
\* The handler runs with the populated container, the only one written.
C12_Witness ==
    /\ handlerSaw.called
    /\ slotWrites = <<PopulatedContainer("c1", UuidOf)>>
    /\ resolution.state = "ok"

\* C13: a request that fails with BadCredential leaves nothing at the sentry
\* sink: no breadcrumb, no message, no event.
C13_BadCredentialUnreported ==
    result = ErrResult(BadCredential) => sink = <<>>

SameButPii(r1, r2) ==
    \A n \in {"cookie", "session", "forwarded"} :
        (r1[n].tag = "absent") <=> (r2[n].tag = "absent")
OtherAddress == "10.0.0.2"

\* C15: with send_default_pii off, the request data the sentry layer puts on
\* the scope is the same for any two requests that differ only in the values
\* of the cookie, Session or X-Forwarded-For header.
C15_ScopeFreeOfPii ==
    (~WithPii /\ \E i \in 1..Len(trace) : trace[i] = "sentry") =>
        \A c \in CookieHeaders, s \in SessionHeaders,
           f \in ForwardedHeaders \cup {SessionText(OtherAddress)} :
            LET other == [cookie |-> c, session |-> s, forwarded |-> f] IN
            SameButPii(req, other) =>
                sentry_request_from_http(other, WithPii) = scope

\* The error that was classified, once it has been.
ClassifiedAs(kind) == pc = "classified" /\ result.err.kind = kind
Verdict(code, reports) == status.code = code /\ sink = reports

\* C17: a Redis error is classified by the first cause it satisfies, in the
\* order timeout, cluster, dropped, refused, I/O: FailedPrecondition with a
\* warning, Unavailable with an error, Unavailable with a warning,
\* Unavailable with an error, Internal with a fatal; any other Redis error
\* is Unavailable with a warning.
C17_RedisTable ==
    ClassifiedAs("Redis") =>
        LET is == result.err.is IN
        /\ "timeout" \in is => Verdict("FailedPrecondition", <<"warning">>)
        /\ ("cluster" \in is /\ is \cap {"timeout"} = {}) =>
              Verdict("Unavailable", <<"error">>)
        /\ ("dropped" \in is /\ is \cap {"timeout", "cluster"} = {}) =>
              Verdict("Unavailable", <<"warning">>)
        /\ ("refused" \in is /\ is \cap {"timeout", "cluster", "dropped"} = {}) =>
              Verdict("Unavailable", <<"error">>)
        /\ is = {"io"} => Verdict("Internal", <<"fatal">>)
        /\ is = {} => Verdict("Unavailable", <<"warning">>)
\* A timed-out Redis error, which is an I/O error too, was classified.
C17_Witness ==
    /\ ClassifiedAs("Redis")
    /\ result.err.is = {"timeout", "io"}
    /\ Verdict("FailedPrecondition", <<"warning">>)

\* C18 as stated: InvalidChannel is classified like the two invalid states,
\* Unavailable with an error.
C18_Original ==
    (ClassifiedAs("LapinAMQP") /\ result.err.is = {"InvalidChannel"}) =>
        Verdict("Unavailable", <<"error">>)
\* C18: a Lapin error is classified by its variant: ChannelsLimitReached is
\* ResourceExhausted with a warning; ProtocolError, InvalidProtocolVersion
\* and IOError are Internal with a fatal; InvalidChannelState and
\* InvalidConnectionState are Unavailable with an error; InvalidChannel,
\* ParsingError and SerialisationError are FailedPrecondition with an error;
\* every other variant is Internal with a fatal.
C18_LapinTable ==
    ClassifiedAs("LapinAMQP") =>
        LET is == result.err.is IN
        /\ is = {"ChannelsLimitReached"} => Verdict("ResourceExhausted", <<"warning">>)
        /\ is \in {{"ProtocolError"}, {"InvalidProtocolVersion"}, {"IOError"}} =>
              Verdict("Internal", <<"fatal">>)
        /\ is \in {{"InvalidChannelState"}, {"InvalidConnectionState"}} =>
              Verdict("Unavailable", <<"error">>)
        /\ is \in {{"InvalidChannel"}, {"ParsingError"}, {"SerialisationError"}} =>
              Verdict("FailedPrecondition", <<"error">>)
        /\ is \in {{"MissingHeartbeatError"}} => Verdict("Internal", <<"fatal">>)
\* An InvalidChannel error was classified.
C18_Witness ==
    /\ ClassifiedAs("LapinAMQP")
    /\ result.err.is = {"InvalidChannel"}
    /\ Verdict("FailedPrecondition", <<"error">>)

\* C19: a JoinError of a panic is Internal, with the panic forwarded to the
\* sink and a fatal; one of a cancellation is Cancelled, with nothing
\* reported; any other is Internal with a warning.
C19_JoinTable ==
    ClassifiedAs("TaskJoinError") =>
        LET is == result.err.is IN
        /\ "panic" \in is => Verdict("Internal", <<"exception", "fatal">>)
        /\ is = {"cancelled"} => Verdict("Cancelled", <<>>)
        /\ is = {} => Verdict("Internal", <<"warning">>)
        /\ "cancelled" \in is => status.code # "Internal"
        /\ "panic" \in is => status.code # "Cancelled"
\* The JoinError of a cancelled task was classified.
C19_Witness ==
    /\ ClassifiedAs("TaskJoinError")
    /\ result.err.is = {"cancelled"}
    /\ Verdict("Cancelled", <<>>)

\* C20: the notifier of a stream is not fired while the stream is held, and
\* has been fired exactly once when the stream is dropped, whichever of
\* cancel, disconnect and completion dropped it.
C20_NotifierFiredOnce ==
    /\ response_stream \in {"none", "alive", "ended"} => notifier.calls = 0
    /\ response_stream = "dropped" =>
          (notifier.calls = 1 /\ teardown \in {"cancel", "disconnect", "completed"})
\* The client cancelled while the task was still sending.
C20_Witness ==
    /\ response_stream = "dropped"
    /\ teardown = "cancel"
    /\ producer.at = "send"
    /\ delivered # <<>>
    /\ notifier.calls = 1

\* C21: the channel never holds more than its capacity of 4, and while the
\* stream is held the items delivered followed by the items queued are the
\* items sent, in send order; what was delivered is always a prefix of what
\* was sent.
C21_BoundedFifo ==
    /\ Len(inner) <= ChannelCapacity
    /\ response_stream \in {"alive", "ended"} => delivered \o inner = sent
    /\ IsPrefix(delivered, sent)
\* The task waits to send with four items queued, after the transport has
\* taken one.
C21_Witness ==
    /\ response_stream = "alive"
    /\ producer.at = "send"
    /\ Len(inner) = ChannelCapacity
    /\ delivered # <<>>
    /\ ~ENABLED Send

\* The items message: 1 up to message: n.
Messages(n) == [i \in 1..n |-> i]

\* C22: a server-streaming call with count n whose client keeps consuming
\* delivers message: 1 .. message: n in order, one sleep before each, then
\* the stream ends and is released, and the task has ended.
C22_EventStream ==
    /\ [](Len(sent) <= producer.slept /\ IsPrefix(delivered, Messages(config.count)))
    /\ \A n \in 0..MaxCount :
          (response_stream = "alive" /\ config.count = n) ~>
              (/\ teardown = "completed"
               /\ delivered = Messages(n)
               /\ producer.at = "done"
               /\ producer.slept = n)
\* A call with count 3 has ended after its three items.
C22_Witness ==
    /\ config.count = 3
    /\ teardown = "completed"
    /\ delivered = <<1, 2, 3>>
    /\ producer.at = "done"

\* C23: once the client is gone, the task stops at its next loop iteration:
\* from the head of the loop it does not go on to another sleep and send.
C23_ProducerStopsOnDisconnect ==
    [][(response_stream = "dropped" /\ teardown \in {"cancel", "disconnect"}
          /\ producer.at = "sleep") => producer'.at # "send"]_vars

\* C24: a send that returned Err is the last thing the task tries: no send
\* fails after the first failed one.
C24_FailedSendIsTerminal ==
    [][sendErrors > 0 => (sendErrors' = sendErrors /\ sent' = sent)]_vars

\* The texts of the Ok items of an inbound stream, in order.
RECURSIVE OkContents(_)
OkContents(q) ==
    IF q = <<>> THEN <<>>
    ELSE IF Head(q).ok THEN <<Head(q).content>> \o OkContents(Tail(q))
         ELSE OkContents(Tail(q))

\* C25: the relay emits the texts it received and nothing else, in the
\* order of arrival; its output ends only after the inbound stream ended
\* and everything was handed over; a client that stays gets all of it.
C25_RelayInOrder ==
    /\ [](IsPrefix(delivered, OkContents(inbound)))
    /\ [](response_stream = "ended" =>
            /\ Len(taken) = Len(inbound)
            /\ delivered = OkContents(inbound))
    /\ [](teardown = "completed" => delivered = OkContents(inbound))
    /\ (response_stream = "alive") ~>
            (teardown = "completed" \/ teardown \in {"cancel", "disconnect"})

C25_Witness ==
    /\ teardown = "completed"
    /\ Len(inbound) = MaxInbound
    /\ delivered = <<"x", "y", "z">>

\* The texts with a comma between each two, built from the left.
RECURSIVE CommaJoined(_)
CommaJoined(q) ==
    IF q = <<>> THEN ""
    ELSE IF Len(q) = 1 THEN q[1]
         ELSE CommaJoined(SubSeq(q, 1, Len(q) - 1)) \o "," \o q[Len(q)]

\* C26: the aggregate answers only after the inbound stream has ended, and
\* its answer is the received texts in order of arrival with `,` between
\* them, the empty text when there was none.
C26_AggregateJoined ==
    response.set =>
        /\ Len(taken) = Len(inbound)
        /\ ((\A i \in 1..Len(inbound) : inbound[i].ok) => response.ok)
        /\ (response.ok => response.content = CommaJoined(OkContents(inbound)))

C26_Witness ==
    /\ response.set
    /\ response.ok
    /\ Len(inbound) = 3
    /\ response.content = "x,y,z"

\* C27: a call whose inbound stream gave an error item does not complete
\* successfully.
C27_InboundErrorReturned ==
    (response.set /\ \E i \in 1..Len(taken) : ~taken[i].ok) => ~response.ok

\* C28: once the shutdown task has broadcast, the server is not left
\* serving with a notification future that nothing will wake.
C28_BroadcastNotLost ==
    (shutdownTask = "done" /\ mainAt = "serving") => notified = "woken"

\* C29: a producer that is running when shutdown is signalled finishes at
\* most the send it is at, and sends nothing after it.
C29_ProducersObserveShutdown ==
    (shutdownTask = "done" /\ sendsAtSignal >= 0) =>
        Len(sent) + sendErrors <= sendsAtSignal + 1

\* The instances a call holds or has run on.
InstancesOf(c) ==
    { c.held[k] : k \in 1..Len(c.held) } \cup { c.ran[k].instance : k \in 1..Len(c.ran) }

\* C30: every inner call runs on an instance whose readiness was confirmed
\* and not used since; the service keeps instances no call in flight has;
\* two calls never have an instance in common.
C30_CallsOnConfirmedInstances ==
    /\ \A i \in 1..Len(calls) : \A k \in 1..Len(calls[i].ran) : calls[i].ran[k].confirmed
    /\ \A i \in 1..Len(calls) :
          InstancesOf(calls[i]) \cap { svc[k] : k \in 1..Len(svc) } = {}
    /\ \A i, j \in 1..Len(calls) :
          i # j => InstancesOf(calls[i]) \cap InstancesOf(calls[j]) = {}

C30_Witness ==
    /\ Len(calls) = 2
    /\ Len(calls[1].ran) = 2
    /\ Len(calls[2].ran) = Len(Decorators)
    /\ ~calls[1].done

\* The value of the session cookie of a request: of the last one, when
\* there are several.
SessionPieces(r) ==
    { i \in 1..Len(r.cookie.pieces) :
        r.cookie.pieces[i].eq /\ Trim(r.cookie.pieces[i].name) = "session" }
LastOf(S) == CHOOSE i \in S : \A j \in S : j <= i
SessionCookieValue(r) == Trim(r.cookie.pieces[LastOf(SessionPieces(r))].value)

\* The request carries a session cookie and a Session header of another
\* value, and the store adapter is attached.
BothCredentials(r) ==
    /\ ext.pool
    /\ HasSessionCookie(r)
    /\ r.session.tag = "text"
    /\ r.session.text # SessionCookieValue(r)
OnlyCookieLookedUp(r) ==
    /\ Len(lookups) = 1
    /\ lookups[1].key = SessionCookieValue(r)
    /\ lookups[1].key # r.session.text
    /\ lookups[1].reply = Nil => resolution = [state |-> "failed", err |-> BadCredential]

\* C31 as stated: for a request with a session cookie and a Session header
\* of another value, the one lookup made is that of the cookie's value.
C31_Original ==
    /\ Len(lookups) <= 1
    /\ (ResolutionOver /\ BothCredentials(req)) => OnlyCookieLookedUp(req)

\* C31 as amended: the same for a request whose cookie header has only
\* name=value pieces; no request has more than one lookup.
C31_CookieBeforeHeader ==
    /\ Len(lookups) <= 1
    /\ (ResolutionOver /\ BothCredentials(req) /\ CookieHeaderWellFormed(req))
       => OnlyCookieLookedUp(req)

C31_Witness ==
    /\ pc = "done"
    /\ BothCredentials(req)
    /\ CookieHeaderWellFormed(req)
    /\ store[req.session.text].live
    /\ lookups[1].reply = Nil
    /\ result.err = BadCredential

\* C32: for the same credential, the same store and the same behaviour of
\* the round trip, the cookie arm and the header arm end alike: the same
\* result with the same container or the same error kind, the same key
\* asked for, and the same store afterwards, times to live included.
C32_PathsEquivalent ==
    cookiePath.set =>
        /\ headerPath.set
        /\ cookiePath.ok = headerPath.ok
        /\ cookiePath.err = headerPath.err
        /\ cookiePath.container = headerPath.container
        /\ cookiePath.keys = headerPath.keys
        /\ cookiePath.store = headerPath.store

C32_Witness ==
    /\ cookiePath.set
    /\ cookiePath.err = "Uuid"
    /\ headerPath.err = "Uuid"
    /\ cookiePath.keys = <<"c2">>
    /\ headerPath.store["c2"].ttl = 86400
    /\ headerPath.store["c1"].live

\* The cookie header is there and readable, and every piece of it parses.
CookieHeaderParses(r) == r.cookie.tag = "text" /\ CookieHeaderWellFormed(r)
\* The error of a cookie header that is unreadable, or has a piece that
\* does not parse.
CookieHeaderFailure(r) ==
    IF r.cookie.tag = "opaque" THEN HttpHeaderError ELSE CookieParseError
\* The request was resolved from its Session header.
ResolvedFromSessionHeader(r) ==
    /\ Len(lookups) = 1
    /\ lookups[1].key = r.session.text
    /\ resolution.err.kind \notin {"CookieParse", "HttpHeader"}
    /\ lookups[1].reply \in {ValidLower, ValidUpper} =>
          /\ resolution.state = "ok"
          /\ ext.container = PopulatedContainer(r.session.text, UuidOf)

\* C33: a request whose cookie header is unreadable or does not parse fails
\* with that error and without lookup, unless the store adapter is attached
\* and the Session header is readable: then it is resolved from the Session
\* header.  A request whose Session header is unreadable fails, with a
\* parse error and without lookup, unless its cookie header parses and the
\* store adapter is attached: then the Session header does not fail it.
C33_ParseFailures ==
    ResolutionOver =>
        /\ ~CookieHeaderWellFormed(req) =>
              IF ext.pool /\ req.session.tag = "text"
              THEN ResolvedFromSessionHeader(req)
              ELSE /\ lookups = <<>>
                   /\ resolution = [state |-> "failed", err |-> CookieHeaderFailure(req)]
        /\ req.session.tag = "opaque" =>
              IF CookieHeaderParses(req) /\ ext.pool
              THEN /\ resolution.err.kind \notin {"CookieParse", "HttpHeader"}
                   /\ \A i \in 1..Len(lookups) : lookups[i].key = SessionCookieValue(req)
                   /\ ~HasSessionCookie(req) => resolution.state = "ok"
              ELSE /\ lookups = <<>>
                   /\ resolution.state = "failed"
                   /\ resolution.err \in {HttpHeaderError, CookieParseError}

C33_Witness ==
    /\ pc = "done"
    /\ req.cookie.tag = "text"
    /\ ~CookieHeaderWellFormed(req)
    /\ ResolvedFromSessionHeader(req)
    /\ result.ok
    /\ ext.container.some

\* Session resolution ends in this step, with or without a lookup.
ResolutionEnds == resolution.state = "pending" /\ resolution'.state # "pending"
LookupAnswered(reply) ==
    /\ Len(lookups') = Len(lookups) + 1
    /\ lookups'[Len(lookups')].reply = reply

\* C34: the lookup of a key whose value is no UUID leaves that record with
\* 86400 seconds to live and its value as it was, while the request fails
\* with the Uuid error; the lookup of a key without record, and the
\* resolution of a request without credential, leave the store as it is.
C34_RefreshTiedToRead ==
    [][ /\ LookupAnswered(Malformed) =>
              LET key == lookups'[Len(lookups')].key
              IN  /\ store'[key] = Record(Malformed, 86400)
                  /\ \A k \in Creds \ {key} : store'[k] = store[k]
                  /\ resolution' = [state |-> "failed", err |-> UuidError]
        /\ LookupAnswered(Nil) => store' = store
        /\ (ResolutionEnds /\ NoCredential(req)) => (store' = store /\ lookups' = lookups)
      ]_vars

C34_Witness ==
    /\ pc = "ret"
    /\ Len(lookups) = 1
    /\ lookups[1].reply = Malformed
    /\ lookups[1].key = "c2"
    /\ store["c2"] = Record(Malformed, 86400)
    /\ result = ErrResult(UuidError)
    /\ ~handlerSaw.called

\* The variants of ServiceError, as the enum lists them.
DefinedKinds ==
    {"Reqwest", "Redis", "MiddlewareNotSet", "ConfigNotSet", "RcHasReference",
     "ParseMessage", "ValidateFailure", "ParseInt", "ParseUtf8", "BadCredential",
     "Rejected", "Uuid", "TryFrom", "EmptySliceIndex", "LapinAMQP", "SendError",
     "OneshotRecvError", "TaskJoinError", "SemaphoreAquire", "QueueDeclareTimeout",
     "QueueBindTimeout", "QueueBasicConsumeTimeout", "QueueBasicAckTimeout",
     "ClientTimeout", "CookieParse", "HttpHeader", "HttpHeaderNotFound",
     "MsgPackDecodeError", "MsgPackEncodeError"}

\* C35: an error of a defined kind is never classified by the catch-all:
\* its status is not Unknown and nothing is reported for it as the
\* catch-all would.
C35_CatchAllNeverTaken ==
    (pc = "classified" /\ result.err.kind \in DefinedKinds) =>
        /\ status.set
        /\ status.code # "Unknown"
        /\ get_code(result.err) # Classified("Unknown", "error", "fatal")

C35_Witness ==
    /\ pc = "classified"
    /\ result.err = ServiceError("LapinAMQP", {"MissingHeartbeatError"})
    /\ status.code = "Internal"
    /\ sink = <<"fatal">>

====
